---- MODULE Spec2Model ----
(***************************************************************************)
(* Value-level CQL deserialization (scylla-cql, types/deserialize/value.rs)*)
(* as a state machine.  A call is a target Rust type T, a column type typ  *)
(* and either a raw length-prefixed cell (the type_check -> read cell ->   *)
(* deserialize pipeline) or an optional frame slice handed directly to     *)
(* the trait method DeserializeValue::deserialize.                         *)
(*                                                                         *)
(* Integers wider than 31 bits are kept as limbs, most significant first:  *)
(* an i64 is <<hi, mid, lo>> = hi * 2^48 + mid * 2^24 + lo with hi a       *)
(* signed 16-bit limb and mid, lo unsigned 24-bit limbs; a u32 is          *)
(* <<hi, lo>> = hi * 2^16 + lo with two unsigned 16-bit limbs.             *)
(***************************************************************************)
EXTENDS Integers, Sequences, FiniteSets, TLC

VARIABLES
    entry,    \* the function the caller entered through
    T,        \* the target Rust type of the call
    typ,      \* the column type of the call
    bytes,    \* the raw buffer holding one length-prefixed cell (pipeline)
    v,        \* the optional frame slice given to deserialize
    pc,       \* position of the call
    typck,    \* outcome of type_check: "none" (not run), "ok" or "err"
    op,       \* the operation that produced the result
    result,   \* the returned Result
    input_val, \* the value handed to serialize (round trips)
    old       \* the Result of the legacy path (compat_check)

vars == <<entry, T, typ, bytes, v, pc, typck, op, result, input_val, old>>

---------------------------------------------------------------------------
(* Bounds of the exploration.                                              *)

\* Longest generated slice; 9 is one more than the widest fixed-width type.
MaxLen == 9

---------------------------------------------------------------------------
(* Result, Option<FrameSlice> and the error records.                       *)

Ok(x) == [ok |-> TRUE, val |-> x]

Err(e) == [ok |-> FALSE, err |-> e]

None == [some |-> FALSE, slice |-> <<>>]

Some(s) == [some |-> TRUE, slice |-> s]

BuiltinTypeCheckError(rust_name, cql_type, kind) ==
    [rust_name |-> rust_name, cql_type |-> cql_type, kind |-> kind]

BuiltinDeserializationError(rust_name, cql_type, kind) ==
    [rust_name |-> rust_name, cql_type |-> cql_type, kind |-> kind]

mk_typck_err(Self, cql_type, kind) == Err(BuiltinTypeCheckError(Self, cql_type, kind))

\* Mutant: the error does not carry the column type it was given.
mk_deser_err_untyped(Self, cql_type, kind) ==
    Err(BuiltinDeserializationError(Self, "Blob", kind))

mk_deser_err(Self, cql_type, kind) == Err(BuiltinDeserializationError(Self, cql_type, kind))

MismatchedType(expected) == [tag |-> "MismatchedType", expected |-> expected]

GenericParseError == [tag |-> "GenericParseError"]

ExpectedNonNull == [tag |-> "ExpectedNonNull"]

ByteLengthMismatch(expected, got) ==
    [tag |-> "ByteLengthMismatch", expected |-> expected, got |-> got]

ExpectedAscii == [tag |-> "ExpectedAscii"]

InvalidUtf8 == [tag |-> "InvalidUtf8"]

ValueOverflow == [tag |-> "ValueOverflow"]

---------------------------------------------------------------------------
(* Column types and target types.                                          *)

\* The column types value.rs matches on, and the parametrized composites.
NativeColumnTypes ==
    {"Ascii", "Boolean", "Blob", "Counter", "Date", "Decimal", "Double",
     "Duration", "Float", "Int", "BigInt", "Text", "Timestamp", "SmallInt",
     "TinyInt", "Time", "Varint"}

CompositeColumnTypes == {"List", "Map", "UserDefinedType"}

ColumnType == NativeColumnTypes \cup CompositeColumnTypes

FixedNumericTypes == {"i8", "i16", "i32", "i64", "f32", "f64"}

BlobTypes == {"&[u8]", "Vec<u8>", "Bytes"}

StringTypes == {"&str", "String"}

\* Types declared through impl_emptiable_strict_type!.
EmptiableTypes ==
    FixedNumericTypes \cup {"bool", "CqlVarint", "CqlDecimal", "CqlDate", "CqlTime", "CqlTimestamp"}

\* Types declared through impl_strict_type! (directly or through a wrapper macro).
StrictTypes ==
    EmptiableTypes \cup BlobTypes \cup StringTypes \cup {"Counter", "CqlDuration"}

BaseTypes == StrictTypes \cup {"CqlValue"}

\* A target type: a base type under a stack of wrappers, outermost first.
Ty(wrap, base) == [wrap |-> wrap, base |-> base]

Option(t) == Ty(<<"Option">> \o t.wrap, t.base)

MaybeEmpty(t) == Ty(<<"MaybeEmpty">> \o t.wrap, t.base)

Plain == {Ty(<<>>, b) : b \in BaseTypes}

PlainEmptiable == {Ty(<<>>, b) : b \in EmptiableTypes}

Targets ==
    Plain
    \cup {Option(t) : t \in Plain}
    \cup {MaybeEmpty(t) : t \in PlainEmptiable}
    \cup {Option(MaybeEmpty(t)) : t \in PlainEmptiable}

\* The feature-gated date targets that decode through
\* get_days_since_epoch_from_date_column.
DateFeatureTargets == {Ty(<<>>, "chrono::NaiveDate"), Ty(<<>>, "time::Date")}

---------------------------------------------------------------------------
(* Byte slices and big-endian reinterpretation.                            *)

Byte == 0 .. 255

\* 256^k for the byte positions of one limb.
Pow256(k) == CASE k = 0 -> 1 [] k = 1 -> 256 [] k = 2 -> 65536 [] k = 3 -> 16777216

RECURSIVE be_unsigned(_)
\* The unsigned big-endian value of a slice of at most three bytes.
be_unsigned(s) ==
    IF s = <<>> THEN 0
    ELSE be_unsigned(SubSeq(s, 1, Len(s) - 1)) * 256 + s[Len(s)]

\* The two's-complement big-endian value of a slice of one to four bytes.
be_signed(s) ==
    (IF s[1] >= 128 THEN s[1] - 256 ELSE s[1]) * Pow256(Len(s) - 1)
        + be_unsigned(Tail(s))

\* i64::from_be_bytes, as limbs <<hi, mid, lo>>.
i64_from_be_bytes(arr) ==
    <<be_signed(SubSeq(arr, 1, 2)), be_unsigned(SubSeq(arr, 3, 5)),
      be_unsigned(SubSeq(arr, 6, 8))>>

\* u32::from_be_bytes, as limbs <<hi, lo>>.
u32_from_be_bytes(arr) ==
    <<be_unsigned(SubSeq(arr, 1, 2)), be_unsigned(SubSeq(arr, 3, 4))>>

\* std::mem::size_of::<$t>() for the fixed numeric types.
size_of(t) ==
    CASE t = "i8" -> 1 [] t = "i16" -> 2 [] t = "i32" -> 4
      [] t = "i64" -> 8 [] t = "f32" -> 4 [] t = "f64" -> 8

\* Mutant: the array is read least significant byte first.
from_le_bytes(t, arr) ==
    LET rev == [i \in 1 .. Len(arr) |-> arr[Len(arr) + 1 - i]]
    IN  CASE t \in {"i8", "i16", "i32"} -> [tag |-> t, n |-> be_signed(rev)]
          [] t = "i64" -> [tag |-> t, limbs |-> i64_from_be_bytes(rev)]
          [] t = "f32" ->
                [tag |-> t, sign |-> rev[1] \div 128,
                 exp |-> (rev[1] % 128) * 2 + (rev[2] \div 128),
                 frac |-> (rev[2] % 128) * 65536 + rev[3] * 256 + rev[4]]
          [] t = "f64" ->
                [tag |-> t, sign |-> rev[1] \div 128,
                 exp |-> (rev[1] % 128) * 16 + (rev[2] \div 16),
                 frac_limbs |-> <<rev[2] % 16, be_unsigned(SubSeq(rev, 3, 5)),
                                  be_unsigned(SubSeq(rev, 6, 8))>>]

\* <$t>::from_be_bytes(*arr).  A float is its IEEE-754 fields.
from_be_bytes(t, arr) ==
    CASE t \in {"i8", "i16", "i32"} -> [tag |-> t, n |-> be_signed(arr)]
      [] t = "i64" -> [tag |-> t, limbs |-> i64_from_be_bytes(arr)]
      [] t = "f32" ->
            [tag |-> t, sign |-> arr[1] \div 128,
             exp |-> (arr[1] % 128) * 2 + (arr[2] \div 128),
             frac |-> (arr[2] % 128) * 65536 + arr[3] * 256 + arr[4]]
      [] t = "f64" ->
            [tag |-> t, sign |-> arr[1] \div 128,
             exp |-> (arr[1] % 128) * 16 + (arr[2] \div 16),
             frac_limbs |-> <<arr[2] % 16, be_unsigned(SubSeq(arr, 3, 5)),
                              be_unsigned(SubSeq(arr, 6, 8))>>]

\* [u8]::is_ascii
is_ascii(s) == \A i \in 1 .. Len(s) : s[i] < 128

IsCont(b) == b >= 128 /\ b <= 191

\* The length of the well-formed UTF-8 sequence at the head of s, 0 if none.
utf8_char_width(s) ==
    LET b == s[1]
        n == Len(s)
    IN  CASE b < 128 -> 1
          [] b >= 194 /\ b <= 223 ->
                IF n >= 2 /\ IsCont(s[2]) THEN 2 ELSE 0
          [] b >= 224 /\ b <= 239 ->
                IF /\ n >= 3
                   /\ IsCont(s[2])
                   /\ IsCont(s[3])
                   /\ (b = 224 => s[2] >= 160)
                   /\ (b = 237 => s[2] <= 159)
                THEN 3 ELSE 0
          [] b >= 240 /\ b <= 244 ->
                IF /\ n >= 4
                   /\ IsCont(s[2])
                   /\ IsCont(s[3])
                   /\ IsCont(s[4])
                   /\ (b = 240 => s[2] >= 144)
                   /\ (b = 244 => s[2] <= 143)
                THEN 4 ELSE 0
          [] OTHER -> 0

\* The scalar value encoded by a well-formed sequence of w bytes.
utf8_scalar(s, w) ==
    CASE w = 1 -> s[1]
      [] w = 2 -> (s[1] % 32) * 64 + (s[2] % 64)
      [] w = 3 -> (s[1] % 16) * 4096 + (s[2] % 64) * 64 + (s[3] % 64)
      [] w = 4 -> (s[1] % 8) * 262144 + (s[2] % 64) * 4096 + (s[3] % 64) * 64
                      + (s[4] % 64)

RECURSIVE from_utf8(_)
\* std::str::from_utf8: the string as its sequence of scalar values, or an
\* error when the slice is not well-formed UTF-8.
from_utf8(s) ==
    IF s = <<>> THEN [ok |-> TRUE, chars |-> <<>>]
    ELSE LET w == utf8_char_width(s)
         IN  IF w = 0 THEN [ok |-> FALSE, chars |-> <<>>]
             ELSE LET rest == from_utf8(SubSeq(s, w + 1, Len(s)))
                  IN  IF rest.ok
                      THEN [ok |-> TRUE, chars |-> <<utf8_scalar(s, w)>> \o rest.chars]
                      ELSE rest

---------------------------------------------------------------------------
(* Readers of frame::types used by the decoders.                           *)

Zeros(n) == [i \in 1 .. n |-> 0]

\* The number of leading one bits of a byte.
leading_ones(b) ==
    CASE b < 128 -> 0 [] b >= 128 /\ b < 192 -> 1 [] b >= 192 /\ b < 224 -> 2
      [] b >= 224 /\ b < 240 -> 3 [] b >= 240 /\ b < 248 -> 4
      [] b >= 248 /\ b < 252 -> 5 [] b >= 252 /\ b < 254 -> 6
      [] b = 254 -> 7 [] b = 255 -> 8

Pow2(k) ==
    CASE k = 0 -> 1 [] k = 1 -> 2 [] k = 2 -> 4 [] k = 3 -> 8 [] k = 4 -> 16
      [] k = 5 -> 32 [] k = 6 -> 64 [] k = 7 -> 128 [] k = 8 -> 256

\* The zig-zag decoding (n >> 1) ^ -(n & 1) of an unsigned 64-bit value given
\* as its eight big-endian bytes; the result as eight two's-complement bytes.
zigzag_decode(u) ==
    LET shifted == [i \in 1 .. 8 |->
                        (u[i] \div 2) + (IF i > 1 THEN (u[i - 1] % 2) * 128 ELSE 0)]
    IN  IF u[8] % 2 = 1 THEN [i \in 1 .. 8 |-> 255 - shifted[i]] ELSE shifted

\* types::vint_decode: one variable-length signed integer off the front of
\* buf.  The leading one bits of the first byte count the bytes that follow.
vint_decode(buf) ==
    IF buf = <<>> THEN [ok |-> FALSE, limbs |-> <<0, 0, 0>>, rest |-> buf]
    ELSE LET extra == leading_ones(buf[1])
         IN  IF Len(buf) < 1 + extra
             THEN [ok |-> FALSE, limbs |-> <<0, 0, 0>>, rest |-> buf]
             ELSE LET padded == Zeros(8) \o <<buf[1] % Pow2(8 - extra)>>
                                    \o SubSeq(buf, 2, 1 + extra)
                      u == SubSeq(padded, Len(padded) - 7, Len(padded))
                  IN  [ok |-> TRUE,
                       limbs |-> i64_from_be_bytes(zigzag_decode(u)),
                       rest |-> SubSeq(buf, 2 + extra, Len(buf))]

\* types::read_int: the protocol's [int], four big-endian bytes off the
\* front of buf.  Its result is a 32-bit integer: the decimal decoders hand
\* it on as the i32 exponent or widen it with `as i64`, where the results of
\* vint_decode are i64 already.
read_int(buf) ==
    IF Len(buf) < 4 THEN [ok |-> FALSE, n |-> 0, rest |-> buf]
    ELSE [ok |-> TRUE, n |-> be_signed(SubSeq(buf, 1, 4)),
          rest |-> SubSeq(buf, 5, Len(buf))]

\* i32::try_from(i64)
i32_try_from(limbs) ==
    IF limbs[1] = 0 /\ limbs[2] < 128
    THEN [ok |-> TRUE, n |-> limbs[2] * 16777216 + limbs[3]]
    ELSE IF limbs[1] = -1 /\ limbs[2] >= 16777216 - 128
    THEN [ok |-> TRUE, n |-> (limbs[2] - 16777216) * 16777216 + limbs[3]]
    ELSE [ok |-> FALSE, n |-> 0]

---------------------------------------------------------------------------
(* Utilities.                                                              *)

\* Mutant: a null is taken for a present empty slice.
ensure_not_null_frame_slice_null_as_empty(Self, cql_type, val) ==
    IF val.some THEN Ok(val.slice) ELSE Ok(<<>>)

ensure_not_null_frame_slice(Self, cql_type, val) ==
    IF val.some THEN Ok(val.slice)
    ELSE mk_deser_err(Self, cql_type, ExpectedNonNull)

\* frame_slice.as_slice(): the borrowed bytes themselves.
ensure_not_null_slice(Self, cql_type, val) ==
    ensure_not_null_frame_slice(Self, cql_type, val)

\* frame_slice.to_bytes(): a shared handle on the same bytes.
ensure_not_null_owned(Self, cql_type, val) ==
    ensure_not_null_frame_slice(Self, cql_type, val)

\* Mutant: a longer slice is truncated to SIZE bytes instead of rejected.
ensure_exact_length_truncating(Self, SIZE, cql_type, s) ==
    IF Len(s) >= SIZE THEN Ok(SubSeq(s, 1, SIZE))
    ELSE mk_deser_err(Self, cql_type, ByteLengthMismatch(SIZE, Len(s)))

ensure_exact_length(Self, SIZE, cql_type, s) ==
    IF Len(s) = SIZE THEN Ok(s)
    ELSE mk_deser_err(Self, cql_type, ByteLengthMismatch(SIZE, Len(s)))

---------------------------------------------------------------------------
(* type_check.                                                             *)

Unit == [tag |-> "()"]

Inner(t) == Ty(Tail(t.wrap), t.base)

\* The [$($cql)|+] list of each impl_strict_type! invocation.
cql_types(base) ==
    CASE base = "bool" -> <<"Boolean">>
      [] base = "i8" -> <<"TinyInt">>
      [] base = "i16" -> <<"SmallInt">>
      [] base = "i32" -> <<"Int">>
      [] base = "i64" -> <<"BigInt", "Counter">>
      [] base = "f32" -> <<"Float">>
      [] base = "f64" -> <<"Double">>
      [] base = "CqlVarint" -> <<"Varint">>
      [] base = "CqlDecimal" -> <<"Decimal">>
      [] base \in BlobTypes -> <<"Blob">>
      [] base \in StringTypes -> <<"Ascii", "Text">>
      [] base = "Counter" -> <<"Counter">>
      [] base = "CqlDuration" -> <<"Duration">>
      [] base = "CqlDate" -> <<"Date">>
      [] base = "CqlTime" -> <<"Time">>
      [] base = "CqlTimestamp" -> <<"Timestamp">>

\* Mutant: only the first type of the list is matched.
exact_type_check_first_only(Self, cql_type, cqls) ==
    IF cqls[1] = cql_type THEN Ok(Unit)
    ELSE mk_typck_err(Self, cql_type, MismatchedType(cqls))

\* exact_type_check!($typ, $($cql),*)
exact_type_check(Self, cql_type, cqls) ==
    IF \E i \in 1 .. Len(cqls) : cqls[i] = cql_type THEN Ok(Unit)
    ELSE mk_typck_err(Self, cql_type, MismatchedType(cqls))

\* impl_strict_type!: fn type_check
strict_type_check(t, cql_type) == exact_type_check(t, cql_type, cql_types(t.base))

\* Mutant: only the native column types are accepted.
CqlValue_type_check_native_only(cql_type) ==
    IF cql_type \in NativeColumnTypes THEN Ok(Unit)
    ELSE mk_typck_err(Ty(<<>>, "CqlValue"), cql_type, MismatchedType(<<>>))

\* impl DeserializeValue for CqlValue: fn type_check
CqlValue_type_check(cql_type) == Ok(Unit)

RECURSIVE type_check(_, _)

\* impl DeserializeValue for Option<T>: fn type_check
Option_type_check(t, cql_type) == type_check(Inner(t), cql_type)

\* Mutant: the wrapper accepts every column type.
MaybeEmpty_type_check_any(t, cql_type) == Ok(Unit)

\* impl DeserializeValue for MaybeEmpty<T>: fn type_check
MaybeEmpty_type_check(t, cql_type) == type_check(Inner(t), cql_type)

\* <T as DeserializeValue>::type_check(typ)
type_check(t, cql_type) ==
    IF t.wrap # <<>>
    THEN IF Head(t.wrap) = "Option" THEN Option_type_check(t, cql_type)
         ELSE MaybeEmpty_type_check(t, cql_type)
    ELSE IF t.base = "CqlValue" THEN CqlValue_type_check(cql_type)
    ELSE strict_type_check(t, cql_type)

---------------------------------------------------------------------------
(* deserialize of the strict built-in types.                               *)

\* impl_fixed_numeric_type!: the conversion closure
fixed_numeric_deserialize(t, cql_type, val) ==
    LET s == ensure_not_null_slice(t, cql_type, val)
    IN  IF ~s.ok THEN s
        ELSE LET arr == ensure_exact_length(t, size_of(t.base), cql_type, s.val)
             IN  IF ~arr.ok THEN arr
                 ELSE Ok(from_be_bytes(t.base, arr.val))

\* Mutant: only the byte 0x01 is true.
bool_deserialize_only_one_true(t, cql_type, val) ==
    LET s == ensure_not_null_slice(t, cql_type, val)
    IN  IF ~s.ok THEN s
        ELSE LET arr == ensure_exact_length(t, 1, cql_type, s.val)
             IN  IF ~arr.ok THEN arr
                 ELSE Ok([tag |-> "bool", b |-> arr.val[1] = 1])

\* The conversion closure of bool: arr[0] != 0x00.
bool_deserialize(t, cql_type, val) ==
    LET s == ensure_not_null_slice(t, cql_type, val)
    IN  IF ~s.ok THEN s
        ELSE LET arr == ensure_exact_length(t, 1, cql_type, s.val)
             IN  IF ~arr.ok THEN arr
                 ELSE Ok([tag |-> "bool", b |-> arr.val[1] # 0])

\* Mutant: a varint needs at least one byte.
CqlVarint_deserialize_nonempty(t, cql_type, val) ==
    LET s == ensure_not_null_slice(t, cql_type, val)
    IN  IF ~s.ok THEN s
        ELSE IF s.val = <<>> THEN mk_deser_err(t, cql_type, ByteLengthMismatch(1, 0))
        ELSE Ok([tag |-> "CqlVarint", bytes |-> s.val])

\* CqlVarint::from_signed_bytes_be_slice keeps the bytes it is given.
CqlVarint_deserialize(t, cql_type, val) ==
    LET s == ensure_not_null_slice(t, cql_type, val)
    IN  IF ~s.ok THEN s
        ELSE Ok([tag |-> "CqlVarint", bytes |-> s.val])

\* Mutant: the magnitude is taken from the whole slice, scale bytes included.
CqlDecimal_deserialize_whole_slice(t, cql_type, val) ==
    LET s == ensure_not_null_slice(t, cql_type, val)
    IN  IF ~s.ok THEN s
        ELSE LET scale == read_int(s.val)
             IN  IF ~scale.ok THEN mk_deser_err(t, cql_type, GenericParseError)
                 ELSE Ok([tag |-> "CqlDecimal", scale |-> scale.n,
                          bytes |-> s.val])

\* CqlDecimal::from_signed_be_bytes_slice_and_exponent(val, scale) keeps the
\* bytes left behind the scale, and the scale.
CqlDecimal_deserialize(t, cql_type, val) ==
    LET s == ensure_not_null_slice(t, cql_type, val)
    IN  IF ~s.ok THEN s
        ELSE LET scale == read_int(s.val)
             IN  IF ~scale.ok THEN mk_deser_err(t, cql_type, GenericParseError)
                 ELSE Ok([tag |-> "CqlDecimal", scale |-> scale.n,
                          bytes |-> scale.rest])

\* Mutant: a present empty slice is taken for a null.
blob_deserialize_empty_as_null(t, cql_type, val) ==
    IF val.some /\ val.slice # <<>> THEN Ok([tag |-> t.base, bytes |-> val.slice])
    ELSE mk_deser_err(t, cql_type, ExpectedNonNull)

\* The conversion closures of &[u8], Vec<u8> and Bytes.
blob_deserialize(t, cql_type, val) ==
    LET s == IF t.base = "Bytes" THEN ensure_not_null_owned(t, cql_type, val)
             ELSE ensure_not_null_slice(t, cql_type, val)
    IN  IF ~s.ok THEN s
        ELSE Ok([tag |-> t.base, bytes |-> s.val])

\* Mutant: the ASCII check is left out.
check_ascii_never(Self, cql_type, s) == Ok(Unit)

check_ascii(Self, cql_type, s) ==
    IF cql_type = "Ascii" /\ ~is_ascii(s)
    THEN mk_deser_err(Self, cql_type, ExpectedAscii)
    ELSE Ok(Unit)

\* Mutant: UTF-8 validation runs before the ASCII check.
string_deserialize_utf8_first(t, cql_type, val) ==
    LET s == ensure_not_null_slice(t, cql_type, val)
    IN  IF ~s.ok THEN s
        ELSE LET str == from_utf8(s.val)
             IN  IF ~str.ok THEN mk_deser_err(t, cql_type, InvalidUtf8)
                 ELSE LET a == check_ascii(t, cql_type, s.val)
                      IN  IF ~a.ok THEN a
                          ELSE Ok([tag |-> t.base, chars |-> str.chars])

\* impl_string_type!: the conversion closures of &str and String
string_deserialize(t, cql_type, val) ==
    LET s == ensure_not_null_slice(t, cql_type, val)
    IN  IF ~s.ok THEN s
        ELSE LET a == check_ascii(t, cql_type, s.val)
             IN  IF ~a.ok THEN a
                 ELSE LET str == from_utf8(s.val)
                      IN  IF ~str.ok THEN mk_deser_err(t, cql_type, InvalidUtf8)
                          ELSE Ok([tag |-> t.base, chars |-> str.chars])

Counter_deserialize(t, cql_type, val) ==
    LET s == ensure_not_null_slice(t, cql_type, val)
    IN  IF ~s.ok THEN s
        ELSE LET arr == ensure_exact_length(t, 8, cql_type, s.val)
             IN  IF ~arr.ok THEN arr
                 ELSE Ok([tag |-> "Counter", limbs |-> i64_from_be_bytes(arr.val)])

\* Mutant: days is narrowed with a wrapping cast instead of i32::try_from.
CqlDuration_deserialize_days_wrapping(t, cql_type, val) ==
    LET s == ensure_not_null_slice(t, cql_type, val)
    IN  IF ~s.ok THEN s
        ELSE
        LET months_i64 == vint_decode(s.val)
        IN  IF ~months_i64.ok THEN mk_deser_err(t, cql_type, GenericParseError)
            ELSE
            LET months == i32_try_from(months_i64.limbs)
            IN  IF ~months.ok THEN mk_deser_err(t, cql_type, ValueOverflow)
                ELSE
                LET days_i64 == vint_decode(months_i64.rest)
                IN  IF ~days_i64.ok THEN mk_deser_err(t, cql_type, GenericParseError)
                    ELSE
                    LET top == days_i64.limbs[2] % 256
                        days == (IF top >= 128 THEN top - 256 ELSE top) * 16777216
                                    + days_i64.limbs[3]
                        nanoseconds == vint_decode(days_i64.rest)
                    IN  IF ~nanoseconds.ok
                        THEN mk_deser_err(t, cql_type, GenericParseError)
                        ELSE Ok([tag |-> "CqlDuration", months |-> months.n,
                                 days |-> days,
                                 nanoseconds |-> nanoseconds.limbs])

CqlDuration_deserialize(t, cql_type, val) ==
    LET s == ensure_not_null_slice(t, cql_type, val)
    IN  IF ~s.ok THEN s
        ELSE
        LET months_i64 == vint_decode(s.val)
        IN  IF ~months_i64.ok THEN mk_deser_err(t, cql_type, GenericParseError)
            ELSE
            LET months == i32_try_from(months_i64.limbs)
            IN  IF ~months.ok THEN mk_deser_err(t, cql_type, ValueOverflow)
                ELSE
                LET days_i64 == vint_decode(months_i64.rest)
                IN  IF ~days_i64.ok THEN mk_deser_err(t, cql_type, GenericParseError)
                    ELSE
                    LET days == i32_try_from(days_i64.limbs)
                    IN  IF ~days.ok THEN mk_deser_err(t, cql_type, ValueOverflow)
                        ELSE
                        LET nanoseconds == vint_decode(days_i64.rest)
                        IN  IF ~nanoseconds.ok
                            THEN mk_deser_err(t, cql_type, GenericParseError)
                            ELSE Ok([tag |-> "CqlDuration", months |-> months.n,
                                     days |-> days.n,
                                     nanoseconds |-> nanoseconds.limbs])

CqlDate_deserialize(t, cql_type, val) ==
    LET s == ensure_not_null_slice(t, cql_type, val)
    IN  IF ~s.ok THEN s
        ELSE LET arr == ensure_exact_length(t, 4, cql_type, s.val)
             IN  IF ~arr.ok THEN arr
                 ELSE Ok([tag |-> "CqlDate", u32 |-> u32_from_be_bytes(arr.val)])

\* Mutant: the four bytes are read as a signed day count with no 2^31 bias.
get_days_since_epoch_from_date_column_signed(t, cql_type, val) ==
    LET s == ensure_not_null_slice(t, cql_type, val)
    IN  IF ~s.ok THEN s
        ELSE LET arr == ensure_exact_length(t, 4, cql_type, s.val)
             IN  IF ~arr.ok THEN arr
                 ELSE Ok([tag |-> "days_since_epoch", n |-> be_signed(arr.val)])

\* days as i64 - (1i64 << 31): the difference lies in -2^31 .. 2^31 - 1.
get_days_since_epoch_from_date_column(t, cql_type, val) ==
    LET s == ensure_not_null_slice(t, cql_type, val)
    IN  IF ~s.ok THEN s
        ELSE LET arr == ensure_exact_length(t, 4, cql_type, s.val)
             IN  IF ~arr.ok THEN arr
                 ELSE LET days == u32_from_be_bytes(arr.val)
                      IN  Ok([tag |-> "days_since_epoch",
                              n |-> (days[1] - 32768) * 65536 + days[2]])

\* Mutant: the upper bound is 86400000000000, one past the last nanosecond.
MAX_NANOS_off_by_one == <<0, 5149841, 5177344>>

\* 86399999999999 = 5149841 * 2^24 + 5177343, as limbs.
MAX_NANOS == <<0, 5149841, 5177343>>

\* a <= b on i64 limbs
i64_le(a, b) ==
    \/ a[1] < b[1]
    \/ a[1] = b[1] /\ a[2] < b[2]
    \/ a[1] = b[1] /\ a[2] = b[2] /\ a[3] <= b[3]

get_nanos_from_time_column(t, cql_type, val) ==
    LET s == ensure_not_null_slice(t, cql_type, val)
    IN  IF ~s.ok THEN s
        ELSE LET arr == ensure_exact_length(t, 8, cql_type, s.val)
             IN  IF ~arr.ok THEN arr
                 ELSE LET nanoseconds == i64_from_be_bytes(arr.val)
                      IN  IF ~(/\ i64_le(<<0, 0, 0>>, nanoseconds)
                               /\ i64_le(nanoseconds, MAX_NANOS))
                          THEN mk_deser_err(t, cql_type, ValueOverflow)
                          ELSE Ok(nanoseconds)

CqlTime_deserialize(t, cql_type, val) ==
    LET nanoseconds == get_nanos_from_time_column(t, cql_type, val)
    IN  IF ~nanoseconds.ok THEN nanoseconds
        ELSE Ok([tag |-> "CqlTime", limbs |-> nanoseconds.val])

get_millis_from_timestamp_column(t, cql_type, val) ==
    LET s == ensure_not_null_slice(t, cql_type, val)
    IN  IF ~s.ok THEN s
        ELSE LET arr == ensure_exact_length(t, 8, cql_type, s.val)
             IN  IF ~arr.ok THEN arr
                 ELSE Ok(i64_from_be_bytes(arr.val))

CqlTimestamp_deserialize(t, cql_type, val) ==
    LET millis == get_millis_from_timestamp_column(t, cql_type, val)
    IN  IF ~millis.ok THEN millis
        ELSE Ok([tag |-> "CqlTimestamp", limbs |-> millis.val])

\* impl_strict_type!: fn deserialize, $conv(typ, v) of each invocation
strict_deserialize(t, cql_type, val) ==
    CASE t.base \in FixedNumericTypes -> fixed_numeric_deserialize(t, cql_type, val)
      [] t.base = "bool" -> bool_deserialize(t, cql_type, val)
      [] t.base = "CqlVarint" -> CqlVarint_deserialize(t, cql_type, val)
      [] t.base = "CqlDecimal" -> CqlDecimal_deserialize(t, cql_type, val)
      [] t.base \in BlobTypes -> blob_deserialize(t, cql_type, val)
      [] t.base \in StringTypes -> string_deserialize(t, cql_type, val)
      [] t.base = "Counter" -> Counter_deserialize(t, cql_type, val)
      [] t.base = "CqlDuration" -> CqlDuration_deserialize(t, cql_type, val)
      [] t.base = "CqlDate" -> CqlDate_deserialize(t, cql_type, val)
      [] t.base = "CqlTime" -> CqlTime_deserialize(t, cql_type, val)
      [] t.base = "CqlTimestamp" -> CqlTimestamp_deserialize(t, cql_type, val)

---------------------------------------------------------------------------
(* CqlValue and the wrappers.                                              *)

\* The built-in branch that decodes a native column type.
branch_of(cql_type) ==
    CASE cql_type \in {"Ascii", "Text"} -> "String"
      [] cql_type = "Boolean" -> "bool"
      [] cql_type = "Blob" -> "Vec<u8>"
      [] cql_type = "Counter" -> "Counter"
      [] cql_type = "Date" -> "CqlDate"
      [] cql_type = "Decimal" -> "CqlDecimal"
      [] cql_type = "Double" -> "f64"
      [] cql_type = "Duration" -> "CqlDuration"
      [] cql_type = "Float" -> "f32"
      [] cql_type = "Int" -> "i32"
      [] cql_type = "BigInt" -> "i64"
      [] cql_type = "Timestamp" -> "CqlTimestamp"
      [] cql_type = "SmallInt" -> "i16"
      [] cql_type = "TinyInt" -> "i8"
      [] cql_type = "Time" -> "CqlTime"
      [] cql_type = "Varint" -> "CqlVarint"

\* frame::response::result::deser_cql_value: the dynamic value picks the
\* built-in branch matching the column type; the element structure of a
\* composite is kept as its bytes.
deser_cql_value(cql_type, buf) ==
    IF cql_type \in CompositeColumnTypes
    THEN Ok([tag |-> "CqlValue", variant |-> cql_type,
             inner |-> [tag |-> "composite", bytes |-> buf]])
    ELSE LET r == strict_deserialize(Ty(<<>>, branch_of(cql_type)), cql_type, Some(buf))
         IN  IF r.ok
             THEN Ok([tag |-> "CqlValue", variant |-> cql_type, inner |-> r.val])
             ELSE r

\* impl DeserializeValue for CqlValue: fn deserialize
CqlValue_deserialize(t, cql_type, val) ==
    LET s == ensure_not_null_slice(t, cql_type, val)
    IN  IF ~s.ok THEN s
        ELSE LET cql == deser_cql_value(cql_type, s.val)
             IN  IF ~cql.ok THEN mk_deser_err(t, cql_type, GenericParseError)
                 ELSE cql

RECURSIVE deserialize(_, _, _)

\* Mutant: a present empty slice is taken for a null.
Option_deserialize_empty_as_none(t, cql_type, val) ==
    IF val.some /\ val.slice # <<>>
    THEN LET r == deserialize(Inner(t), cql_type, val)
         IN  IF r.ok THEN Ok([tag |-> "Some", inner |-> r.val]) ELSE r
    ELSE Ok([tag |-> "None"])

\* impl DeserializeValue for Option<T>: v.map(|_| T::deserialize(typ, v)).transpose()
Option_deserialize(t, cql_type, val) ==
    IF val.some
    THEN LET r == deserialize(Inner(t), cql_type, val)
         IN  IF r.ok THEN Ok([tag |-> "Some", inner |-> r.val]) ELSE r
    ELSE Ok([tag |-> "None"])

\* Mutant: a slice the inner type rejects is reported as Empty.
MaybeEmpty_deserialize_rejected_as_empty(t, cql_type, val) ==
    LET s == ensure_not_null_slice(t, cql_type, val)
    IN  IF ~s.ok THEN s
        ELSE LET r == deserialize(Inner(t), cql_type, val)
             IN  IF r.ok THEN Ok([tag |-> "Value", inner |-> r.val])
                 ELSE Ok([tag |-> "Empty"])

\* Mutant: the empty slice is handed to the inner type like any other.
MaybeEmpty_deserialize_no_empty(t, cql_type, val) ==
    LET s == ensure_not_null_slice(t, cql_type, val)
    IN  IF ~s.ok THEN s
        ELSE LET r == deserialize(Inner(t), cql_type, val)
             IN  IF r.ok THEN Ok([tag |-> "Value", inner |-> r.val]) ELSE r

\* impl DeserializeValue for MaybeEmpty<T>: fn deserialize
MaybeEmpty_deserialize(t, cql_type, val) ==
    LET s == ensure_not_null_slice(t, cql_type, val)
    IN  IF ~s.ok THEN s
        ELSE IF s.val = <<>> THEN Ok([tag |-> "Empty"])
        ELSE LET r == deserialize(Inner(t), cql_type, val)
             IN  IF r.ok THEN Ok([tag |-> "Value", inner |-> r.val]) ELSE r

\* <T as DeserializeValue>::deserialize(typ, v)
deserialize(t, cql_type, val) ==
    IF t.wrap # <<>>
    THEN IF Head(t.wrap) = "Option" THEN Option_deserialize(t, cql_type, val)
         ELSE MaybeEmpty_deserialize(t, cql_type, val)
    ELSE IF t.base = "CqlValue" THEN CqlValue_deserialize(t, cql_type, val)
    ELSE strict_deserialize(t, cql_type, val)

---------------------------------------------------------------------------
(* Cells on the wire.                                                      *)

\* BufMut::put_i32: four big-endian two's-complement bytes.
put_i32(n) ==
    <<(n \div 16777216) % 256, (n \div 65536) % 256, (n \div 256) % 256, n % 256>>

append_bytes(b, cell) == b \o put_i32(Len(cell)) \o cell

make_bytes(cell) == append_bytes(<<>>, cell)

\* FrameSlice::read_cql_bytes: a 4-byte signed length, negative for null,
\* then that many bytes; a parse error when the buffer is too short.
read_cql_bytes(buf) ==
    IF Len(buf) < 4 THEN [ok |-> FALSE, value |-> None]
    ELSE LET len == be_signed(SubSeq(buf, 1, 4))
         IN  IF len < 0 THEN [ok |-> TRUE, value |-> None]
             ELSE IF Len(buf) - 4 < len THEN [ok |-> FALSE, value |-> None]
             ELSE [ok |-> TRUE, value |-> Some(SubSeq(buf, 5, 4 + len))]

---------------------------------------------------------------------------
(* The encoders the tests serialize with (types::serialize) and the        *)
(* legacy conversions they compare with (FromCqlVal): the mirror of the    *)
(* decoders, writing the wire layout of a value.                           *)

\* The eight big-endian two's-complement bytes of an i64 held as limbs.
i64_to_be_bytes(l) ==
    LET hi == IF l[1] < 0 THEN l[1] + 65536 ELSE l[1]
    IN  <<hi \div 256, hi % 256,
          l[2] \div 65536, (l[2] \div 256) % 256, l[2] % 256,
          l[3] \div 65536, (l[3] \div 256) % 256, l[3] % 256>>

\* i64::from(i32), as limbs.
i64_from(n) ==
    <<IF n < 0 THEN -1 ELSE 0, (n \div 16777216) % 16777216, n % 16777216>>

\* The big-endian two's-complement bytes of an integer of width bytes.
int_to_be_bytes(n, width) ==
    [i \in 1 .. width |-> (n \div Pow256(width - i)) % 256]

\* str::as_bytes of one char.
char_as_bytes(c) ==
    IF c < 128 THEN <<c>>
    ELSE IF c < 2048 THEN <<192 + (c \div 64), 128 + (c % 64)>>
    ELSE IF c < 65536
         THEN <<224 + (c \div 4096), 128 + ((c \div 64) % 64), 128 + (c % 64)>>
    ELSE <<240 + (c \div 262144), 128 + ((c \div 4096) % 64),
           128 + ((c \div 64) % 64), 128 + (c % 64)>>

RECURSIVE as_bytes(_)
\* str::as_bytes
as_bytes(chars) ==
    IF chars = <<>> THEN <<>>
    ELSE char_as_bytes(Head(chars)) \o as_bytes(Tail(chars))

\* The zig-zag encoding (n << 1) ^ (n >> 63) of eight two's-complement bytes.
zigzag_encode(b) ==
    LET shifted == [i \in 1 .. 8 |->
                        ((b[i] * 2) % 256) + (IF i < 8 THEN b[i + 1] \div 128 ELSE 0)]
    IN  IF b[1] >= 128 THEN [i \in 1 .. 8 |-> 255 - shifted[i]] ELSE shifted

\* The bytes that follow the first byte of the shortest encoding of an
\* unsigned 64-bit value: k such that the value has at most 7 (k + 1) bits.
vint_extra_bytes(u) ==
    IF \E k \in 0 .. 7 :
           /\ \A i \in 1 .. 7 - k : u[i] = 0
           /\ u[8 - k] < Pow2(7 - k)
    THEN CHOOSE k \in 0 .. 7 :
           /\ \A i \in 1 .. 7 - k : u[i] = 0
           /\ u[8 - k] < Pow2(7 - k)
           /\ \A j \in 0 .. k - 1 :
                  ~(/\ \A i \in 1 .. 7 - j : u[i] = 0
                    /\ u[8 - j] < Pow2(7 - j))
    ELSE 8

\* types::vint_encode: the variable-length encoding of an i64.
vint_encode(l) ==
    LET u == zigzag_encode(i64_to_be_bytes(l))
        k == vint_extra_bytes(u)
    IN  IF k = 8 THEN <<255>> \o u
        ELSE <<((256 - Pow2(8 - k)) % 256) + u[8 - k]>> \o SubSeq(u, 9 - k, 8)

\* The IEEE-754 bytes of a float held as its fields.
float_to_be_bytes(x) ==
    IF x.tag = "f32"
    THEN <<x.sign * 128 + (x.exp \div 2), (x.exp % 2) * 128 + (x.frac \div 65536),
           (x.frac \div 256) % 256, x.frac % 256>>
    ELSE <<x.sign * 128 + (x.exp \div 16),
           (x.exp % 16) * 16 + x.frac_limbs[1]>>
         \o int_to_be_bytes(x.frac_limbs[2], 3)
         \o int_to_be_bytes(x.frac_limbs[3], 3)

RECURSIVE serialize_value(_)
\* SerializeValue::serialize: the cell of a value, null for None.
serialize_value(x) ==
    CASE x.tag = "None" -> None
      [] x.tag = "Some" -> serialize_value(x.inner)
      [] x.tag = "i8" -> Some(int_to_be_bytes(x.n, 1))
      [] x.tag = "i16" -> Some(int_to_be_bytes(x.n, 2))
      [] x.tag = "i32" -> Some(int_to_be_bytes(x.n, 4))
      [] x.tag \in {"i64", "Counter", "CqlTime", "CqlTimestamp"} ->
             Some(i64_to_be_bytes(x.limbs))
      [] x.tag \in {"f32", "f64"} -> Some(float_to_be_bytes(x))
      [] x.tag = "bool" -> Some(IF x.b THEN <<1>> ELSE <<0>>)
      [] x.tag \in {"CqlVarint", "&[u8]", "Vec<u8>", "Bytes"} -> Some(x.bytes)
      [] x.tag = "CqlDecimal" -> Some(int_to_be_bytes(x.scale, 4) \o x.bytes)
      [] x.tag \in {"&str", "String"} -> Some(as_bytes(x.chars))
      [] x.tag = "CqlDate" ->
             Some(int_to_be_bytes(x.u32[1], 2) \o int_to_be_bytes(x.u32[2], 2))
      [] x.tag = "CqlDuration" ->
             Some(vint_encode(i64_from(x.months)) \o vint_encode(i64_from(x.days))
                      \o vint_encode(x.nanoseconds))

\* CellWriter: the length prefix, -1 for null, and the bytes of the cell.
write_cell(cell) ==
    IF cell.some THEN make_bytes(cell.slice) ELSE put_i32(-1)

\* tests::serialize
serialize(cql_type, x) == write_cell(serialize_value(x))

\* The target types with a legacy conversion FromCqlVal<Option<CqlValue>>:
\* the owned built-in types, CqlValue, and their Options.
LegacyBaseTypes ==
    {"i8", "i16", "i32", "i64", "bool", "f32", "f64", "CqlVarint", "CqlDecimal",
     "Vec<u8>", "String", "Counter", "CqlDuration", "CqlDate", "CqlTime",
     "CqlTimestamp", "CqlValue"}

LegacyTargets ==
    {Ty(<<>>, b) : b \in LegacyBaseTypes}
        \cup {Option(Ty(<<>>, b)) : b \in LegacyBaseTypes}

NoCqlValue == [tag |-> "CqlValue", variant |-> "-", inner |-> [tag |-> "-"]]

FromCqlValError(t, cql_type, kind) ==
    Err(BuiltinDeserializationError(t, cql_type, [tag |-> kind]))

\* FromCqlVal<Option<CqlValue>>::from_cql: the payload of the variant that
\* holds a T; None only for Option<T>.
from_cql(t, cql_type, cql) ==
    IF t.wrap = <<"Option">>
    THEN IF ~cql.some THEN Ok([tag |-> "None"])
         ELSE IF t.base = "CqlValue"
              THEN Ok([tag |-> "Some", inner |-> cql.val])
         ELSE IF branch_of(cql.val.variant) = t.base
              THEN Ok([tag |-> "Some", inner |-> cql.val.inner])
         ELSE FromCqlValError(t, cql_type, "BadCqlType")
    ELSE IF ~cql.some THEN FromCqlValError(t, cql_type, "ValIsNull")
    ELSE IF t.base = "CqlValue" THEN Ok(cql.val)
    ELSE IF branch_of(cql.val.variant) = t.base THEN Ok(cql.val.inner)
    ELSE FromCqlValError(t, cql_type, "BadCqlType")

\* compat_check: T::from_cql(cell.map(|c| deser_cql_value(typ, c)).transpose())
legacy_deserialize(t, cql_type, cell) ==
    IF ~cell.ok THEN FromCqlValError(t, cql_type, "ParseError")
    ELSE IF ~cell.value.some
    THEN from_cql(t, cql_type, [some |-> FALSE, val |-> NoCqlValue])
    ELSE LET cql == deser_cql_value(cql_type, cell.value.slice)
         IN  IF ~cql.ok THEN cql
             ELSE from_cql(t, cql_type, [some |-> TRUE, val |-> cql.val])

---------------------------------------------------------------------------
(* The inputs.                                                             *)

Fills == {0, 255}

\* Low-order bytes of the values at the edges of the decoders' ranges.
Tails ==
    {<<>>, <<1>>, <<127>>,
     <<128, 0, 0, 0>>, <<127, 255, 255, 255>>,
     <<1, 2, 3, 4, 5, 6, 7, 8>>,
     <<78, 148, 145, 78, 255, 255>>, <<78, 148, 145, 79, 0, 0>>}

\* n bytes: the tail (cut to n bytes) behind as many fill bytes as needed.
Pattern(n, f, t) ==
    IF Len(t) >= n THEN SubSeq(t, 1, n)
    ELSE [i \in 1 .. n |-> IF i <= n - Len(t) THEN f ELSE t[i - (n - Len(t))]]

NumericSlices == {Pattern(n, f, t) : n \in 0 .. MaxLen, f \in Fills, t \in Tails}

\* "foo", "Zażółć", a two-byte and a four-byte scalar, and ill-formed UTF-8:
\* a truncated sequence, an overlong form, a surrogate, a scalar above
\* U+10FFFF and a stray continuation byte.
TextSlices ==
    {<<102, 111, 111>>,
     <<90, 97, 197, 188, 195, 179, 197, 130, 196, 135>>,
     <<197, 188>>, <<240, 159, 152, 128>>,
     <<90, 97, 197>>, <<192, 128>>, <<237, 160, 128>>,
     <<244, 144, 128, 128>>, <<102, 128>>}

\* Variable-length integers at the edges of i32: 1, 2^31 - 1, 2^31, -2^31
\* and -2^31 - 1.
VintsAroundI32 ==
    {<<2>>, <<240, 255, 255, 255, 254>>, <<241, 0, 0, 0, 0>>,
     <<240, 255, 255, 255, 255>>, <<241, 0, 0, 0, 1>>}

\* Variable-length integers over the range of i64: 0, 150, 2^63 - 1, -2^63.
VintsOverI64 ==
    {<<0>>, <<129, 44>>,
     <<255, 255, 255, 255, 255, 255, 255, 255, 254>>,
     <<255, 255, 255, 255, 255, 255, 255, 255, 255>>}

\* Duration cells: months, days and nanoseconds in a row, the same cut one
\* byte short, and months followed by the first bytes of a longer integer.
DurationSlices ==
    LET whole == {m \o d \o n : m \in VintsAroundI32, d \in VintsAroundI32,
                                n \in VintsOverI64}
    IN  whole \cup {SubSeq(w, 1, Len(w) - 1) : w \in whole}
              \cup {m \o <<240, 255>> : m \in VintsAroundI32}

\* Decimal cells: 123.45 as scale 2 and magnitude 12345, and a bare scale.
DecimalSlices == {<<0, 0, 0, 2, 48, 57>>, <<0, 0, 0, 2>>}

Slices == NumericSlices \cup TextSlices \cup DurationSlices \cup DecimalSlices

Values == {None} \cup {Some(s) : s \in Slices}

\* Every one-byte cell, handed to the bool targets.
BooleanCells(t) == IF t.base = "bool" THEN {Some(<<b>>) : b \in Byte} ELSE {}

\* Buffers the cell reader rejects: a short length prefix, a short body.
MalformedBuffers == {<<0, 0>>, put_i32(2) \o <<1>>}

RawBuffers ==
    {make_bytes(s) : s \in Slices} \cup {put_i32(-1)} \cup MalformedBuffers

---------------------------------------------------------------------------
(* A call enters through one of three functions: the trait method          *)
(* type_check, the trait method deserialize (or, for the feature-gated     *)
(* date targets, the helper get_days_since_epoch_from_date_column that     *)
(* their deserialize starts with), or tests::deserialize, the pipeline     *)
(* type_check -> read cell -> deserialize.                                 *)
(* The pipeline is also entered from compat_check, after the legacy path   *)
(* has decoded the same cell, from compat_check_serialized, which first    *)
(* serializes a value into the cell, and from a plain serialize-then-      *)
(* deserialize round trip.                                                 *)

NoResult ==
    Err(BuiltinDeserializationError(Ty(<<>>, "-"), "-", [tag |-> "-"]))

NoValue == [tag |-> "-"]

\* The targets the tests serialize: the strict types and their Options.
SerializeTargets ==
    {Ty(<<>>, b) : b \in StrictTypes} \cup {Option(Ty(<<>>, b)) : b \in StrictTypes}

\* Buffers holding one whole cell, null included.
WellFramedBuffers == {make_bytes(s) : s \in Slices} \cup {put_i32(-1)}

\* The entries that run tests::deserialize.
PipelineEntries ==
    {"tests::deserialize", "compat_check", "compat_check_serialized", "serialize"}

Init ==
    /\ typ \in ColumnType
    /\ typck = "none"
    /\ op = "none"
    /\ result = NoResult
    /\ old = NoResult
    /\ \/ /\ entry = "type_check"
          /\ pc = "type_check"
          /\ T \in Targets
          /\ v = None
          /\ bytes = <<>>
          /\ input_val = NoValue
       \/ /\ entry = "deserialize"
          /\ pc = "deserialize"
          /\ T \in Targets \cup DateFeatureTargets
          /\ v \in Values \cup BooleanCells(T)
          /\ bytes = <<>>
          /\ input_val = NoValue
       \/ /\ entry = "tests::deserialize"
          /\ pc = "type_check"
          /\ T \in Targets
          /\ v = None
          /\ bytes \in RawBuffers
          /\ input_val = NoValue
       \/ /\ entry = "compat_check"
          /\ pc = "legacy"
          /\ T \in LegacyTargets
          /\ type_check(T, typ).ok
          /\ v = None
          /\ bytes \in WellFramedBuffers
          /\ input_val = NoValue
       \/ /\ entry = "compat_check_serialized"
          /\ pc = "construct"
          /\ T \in LegacyTargets \cap SerializeTargets
          /\ type_check(T, typ).ok
          /\ v \in Values
          /\ bytes = <<>>
          /\ input_val = NoValue
       \/ /\ entry = "serialize"
          /\ pc = "construct"
          /\ T \in SerializeTargets
          /\ type_check(T, typ).ok
          /\ v \in Values
          /\ bytes = <<>>
          /\ input_val = NoValue

\* The caller makes a value of T: one its decoder yields on the sampled
\* cell v for an accepted column type.
Construct ==
    /\ entry \in {"compat_check_serialized", "serialize"}
    /\ pc = "construct"
    /\ \E i \in 1 .. Len(cql_types(T.base)) :
           LET r == deserialize(T, cql_types(T.base)[i], v)
           IN  r.ok /\ input_val' = r.val
    /\ pc' = "serialize"
    /\ op' = "construct"
    /\ UNCHANGED <<entry, T, typ, bytes, v, typck, result, old>>

\* The caller makes a CqlTime: the tuple struct holds any i64.
ConstructCqlTime ==
    /\ entry \in {"compat_check_serialized", "serialize"}
    /\ pc = "construct"
    /\ T.base = "CqlTime"
    /\ v.some
    /\ Len(v.slice) = 8
    /\ LET time == [tag |-> "CqlTime", limbs |-> i64_from_be_bytes(v.slice)]
       IN  input_val' = IF T.wrap = <<>> THEN time
                        ELSE [tag |-> "Some", inner |-> time]
    /\ pc' = "serialize"
    /\ op' = "construct"
    /\ UNCHANGED <<entry, T, typ, bytes, v, typck, result, old>>

\* tests::serialize(typ, val): the cell of the value.
Serialize ==
    /\ entry \in {"compat_check_serialized", "serialize"}
    /\ pc = "serialize"
    /\ bytes' = serialize(typ, input_val)
    /\ pc' = IF entry = "serialize" THEN "type_check" ELSE "legacy"
    /\ op' = "serialize"
    /\ UNCHANGED <<entry, T, typ, v, typck, result, input_val, old>>

\* compat_check: old = T::from_cql(cell.map(|c| deser_cql_value(typ, c))).
\* The Result is kept; the test's unwrap and assert_eq are what is checked
\* of the two Results.
CompatLegacy ==
    /\ entry \in {"compat_check", "compat_check_serialized"}
    /\ pc = "legacy"
    /\ old' = legacy_deserialize(T, typ, read_cql_bytes(bytes))
    /\ pc' = "type_check"
    /\ op' = "from_cql"
    /\ UNCHANGED <<entry, T, typ, bytes, v, typck, result, input_val>>

\* T::type_check(typ), called on its own.
TypeCheck ==
    /\ entry = "type_check"
    /\ pc = "type_check"
    /\ result' = type_check(T, typ)
    /\ typck' = IF result'.ok THEN "ok" ELSE "err"
    /\ op' = "type_check"
    /\ pc' = "done"
    /\ UNCHANGED <<entry, T, typ, bytes, v, input_val, old>>

\* T::deserialize(typ, v), called on its own.
Deserialize ==
    /\ entry = "deserialize"
    /\ pc = "deserialize"
    /\ T \in Targets
    /\ result' = deserialize(T, typ, v)
    /\ op' = "deserialize"
    /\ pc' = "done"
    /\ UNCHANGED <<entry, T, typ, bytes, v, typck, input_val, old>>

GetDaysSinceEpoch ==
    /\ entry = "deserialize"
    /\ pc = "deserialize"
    /\ T \in DateFeatureTargets
    /\ result' = get_days_since_epoch_from_date_column(T, typ, v)
    /\ op' = "get_days_since_epoch"
    /\ pc' = "done"
    /\ UNCHANGED <<entry, T, typ, bytes, v, typck, input_val, old>>

\* Mutant: the outcome of type_check is dropped and the cell is read anyway.
PipelineTypeCheck_unchecked ==
    /\ entry \in PipelineEntries
    /\ pc = "type_check"
    /\ typck' = IF type_check(T, typ).ok THEN "ok" ELSE "err"
    /\ pc' = "read"
    /\ op' = "type_check"
    /\ UNCHANGED <<entry, T, typ, bytes, v, result, input_val, old>>

\* tests::deserialize: T::type_check(typ).map_err(..)?
PipelineTypeCheck ==
    /\ entry \in PipelineEntries
    /\ pc = "type_check"
    /\ LET r == type_check(T, typ)
       IN  /\ typck' = IF r.ok THEN "ok" ELSE "err"
           /\ result' = IF r.ok THEN result ELSE r
           /\ pc' = IF r.ok THEN "read" ELSE "done"
    /\ op' = "type_check"
    /\ UNCHANGED <<entry, T, typ, bytes, v, input_val, old>>

\* Mutant: a failed cell read is not propagated; deserialize runs on a null.
PipelineReadCell_unchecked ==
    /\ entry \in PipelineEntries
    /\ pc = "read"
    /\ v' = read_cql_bytes(bytes).value
    /\ pc' = "deserialize"
    /\ op' = "read_cql_bytes"
    /\ UNCHANGED <<entry, T, typ, bytes, typck, result, input_val, old>>

\* Mutant: the length prefix is left on the cell handed to deserialize.
PipelineReadCell_keeps_prefix ==
    /\ entry \in PipelineEntries
    /\ pc = "read"
    /\ LET value == read_cql_bytes(bytes)
       IN  /\ v' = IF value.value.some THEN Some(bytes) ELSE value.value
           /\ result' = IF value.ok THEN result
                        ELSE mk_deser_err(T, typ, GenericParseError)
           /\ pc' = IF value.ok THEN "deserialize" ELSE "done"
    /\ op' = "read_cql_bytes"
    /\ UNCHANGED <<entry, T, typ, bytes, typck, input_val, old>>

\* tests::deserialize: frame_slice.read_cql_bytes().map_err(..)?
PipelineReadCell ==
    /\ entry \in PipelineEntries
    /\ pc = "read"
    /\ LET value == read_cql_bytes(bytes)
       IN  /\ v' = value.value
           /\ result' = IF value.ok THEN result
                        ELSE mk_deser_err(T, typ, GenericParseError)
           /\ pc' = IF value.ok THEN "deserialize" ELSE "done"
    /\ op' = "read_cql_bytes"
    /\ UNCHANGED <<entry, T, typ, bytes, typck, input_val, old>>

\* tests::deserialize: T::deserialize(typ, value)
PipelineDeserialize ==
    /\ entry \in PipelineEntries
    /\ pc = "deserialize"
    /\ result' = deserialize(T, typ, v)
    /\ op' = "deserialize"
    /\ pc' = "done"
    /\ UNCHANGED <<entry, T, typ, bytes, v, typck, input_val, old>>

Next ==
    \/ Construct
    \/ ConstructCqlTime
    \/ Serialize
    \/ CompatLegacy
    \/ TypeCheck
    \/ Deserialize
    \/ GetDaysSinceEpoch
    \/ PipelineTypeCheck
    \/ PipelineReadCell
    \/ PipelineDeserialize

Spec == Init /\ [][Next]_vars

---------------------------------------------------------------------------
(* Properties.                                                             *)

Returned(o) == pc = "done" /\ op = o

IsOption(t) == t.wrap # <<>> /\ Head(t.wrap) = "Option"

FailsWith(tag) == ~result.ok /\ result.err.kind.tag = tag

\* C1: with a null input (v = None) deserialize fails with ExpectedNonNull
\* for every column type and every target type other than Option<T>, and
\* succeeds with None for Option<T>.
C1_NullInput ==
    (Returned("deserialize") /\ ~v.some) =>
        IF IsOption(T) THEN result.ok /\ result.val = [tag |-> "None"]
        ELSE FailsWith("ExpectedNonNull")

C1_Witness ==
    /\ Returned("deserialize")
    /\ ~v.some
    /\ T = MaybeEmpty(Ty(<<>>, "CqlTimestamp"))
    /\ typ = "List"
    /\ FailsWith("ExpectedNonNull")

\* C2: a present zero-length slice decodes as MaybeEmpty<T> to Empty; a
\* present non-empty slice decodes to Value(x) exactly when T's own
\* deserialize yields x, and to T's error otherwise; the zero-length slice
\* decoded as plain i32 fails with ByteLengthMismatch {expected: 4, got: 0}.
C2_MaybeEmpty ==
    /\ (Returned("deserialize") /\ T.wrap = <<"MaybeEmpty">> /\ v.some) =>
            IF v.slice = <<>> THEN result.ok /\ result.val = [tag |-> "Empty"]
            ELSE LET r == strict_deserialize(Inner(T), typ, v)
                 IN  IF r.ok
                     THEN result.ok /\ result.val = [tag |-> "Value", inner |-> r.val]
                     ELSE ~result.ok /\ result.err = r.err
    /\ (Returned("deserialize") /\ T = Ty(<<>>, "i32") /\ v = Some(<<>>)) =>
            /\ ~result.ok
            /\ result.err.kind = [tag |-> "ByteLengthMismatch", expected |-> 4, got |-> 0]

C2_Witness ==
    /\ Returned("deserialize")
    /\ T = MaybeEmpty(Ty(<<>>, "i32"))
    /\ typ = "Int"
    /\ v = Some(<<>>)
    /\ result.ok
    /\ result.val.tag = "Empty"

\* The widths the claim lists for the fixed-width target types.
C3_Width(base) ==
    CASE base \in {"bool", "i8"} -> 1
      [] base = "i16" -> 2
      [] base \in {"i32", "f32", "CqlDate"} -> 4
      [] base \in {"i64", "f64", "Counter", "CqlTime", "CqlTimestamp"} -> 8

C3_FixedWidth ==
    {"bool", "i8", "i16", "i32", "i64", "f32", "f64", "Counter", "CqlDate",
     "CqlTime", "CqlTimestamp"}

\* The big-endian bytes of a decoded fixed numeric value.
C3_to_be_bytes(x) ==
    CASE x.tag = "i8" -> <<x.n % 256>>
      [] x.tag = "i16" -> <<(x.n \div 256) % 256, x.n % 256>>
      [] x.tag = "i32" ->
            <<(x.n \div 16777216) % 256, (x.n \div 65536) % 256,
              (x.n \div 256) % 256, x.n % 256>>
      [] x.tag = "i64" ->
            <<(x.limbs[1] \div 256) % 256, x.limbs[1] % 256,
              x.limbs[2] \div 65536, (x.limbs[2] \div 256) % 256, x.limbs[2] % 256,
              x.limbs[3] \div 65536, (x.limbs[3] \div 256) % 256, x.limbs[3] % 256>>
      [] x.tag = "f32" ->
            <<x.sign * 128 + (x.exp \div 2), (x.exp % 2) * 128 + (x.frac \div 65536),
              (x.frac \div 256) % 256, x.frac % 256>>
      [] x.tag = "f64" ->
            <<x.sign * 128 + (x.exp \div 16), (x.exp % 16) * 16 + x.frac_limbs[1],
              x.frac_limbs[2] \div 65536, (x.frac_limbs[2] \div 256) % 256,
              x.frac_limbs[2] % 256,
              x.frac_limbs[3] \div 65536, (x.frac_limbs[3] \div 256) % 256,
              x.frac_limbs[3] % 256>>

\* The decoded value lies in the range of its type.
C3_InRange(x) ==
    CASE x.tag = "i8" -> x.n \in -128 .. 127
      [] x.tag = "i16" -> x.n \in -32768 .. 32767
      [] x.tag = "i32" -> TRUE
      [] x.tag = "i64" ->
            /\ x.limbs[1] \in -32768 .. 32767
            /\ x.limbs[2] \in 0 .. 16777215
            /\ x.limbs[3] \in 0 .. 16777215
      [] x.tag = "f32" ->
            x.sign \in 0 .. 1 /\ x.exp \in 0 .. 255 /\ x.frac \in 0 .. 8388607
      [] x.tag = "f64" ->
            /\ x.sign \in 0 .. 1
            /\ x.exp \in 0 .. 2047
            /\ x.frac_limbs[1] \in 0 .. 15
            /\ x.frac_limbs[2] \in 0 .. 16777215
            /\ x.frac_limbs[3] \in 0 .. 16777215

\* C3: a fixed-width target type decoding a present slice of length n fails
\* with ByteLengthMismatch {expected: width, got: n} whenever n differs from
\* its width, and at the exact width a numeric type yields the big-endian
\* reinterpretation of those bytes (0x01020304 for the bytes 1, 2, 3, 4).
C3_ExactLength ==
    (Returned("deserialize") /\ T.wrap = <<>> /\ T.base \in C3_FixedWidth /\ v.some) =>
        IF Len(v.slice) # C3_Width(T.base)
        THEN /\ ~result.ok
             /\ result.err.kind = [tag |-> "ByteLengthMismatch",
                                   expected |-> C3_Width(T.base),
                                   got |-> Len(v.slice)]
        ELSE T.base \in FixedNumericTypes =>
                /\ result.ok
                /\ result.val.tag = T.base
                /\ C3_InRange(result.val)
                /\ C3_to_be_bytes(result.val) = v.slice
                /\ (T.base = "i32" /\ v.slice = <<1, 2, 3, 4>>) => result.val.n = 16909060
                /\ (T.base = "i8" /\ v.slice = <<255>>) => result.val.n = -1

C3_Witness ==
    /\ Returned("deserialize")
    /\ T = Ty(<<>>, "i32")
    /\ v = Some(<<1, 2, 3>>)
    /\ ~result.ok
    /\ result.err.kind = [tag |-> "ByteLengthMismatch", expected |-> 4, got |-> 3]

\* The column types each strict target type is documented to accept.
AcceptedColumnTypes(base) ==
    CASE base = "bool" -> {"Boolean"}
      [] base = "i8" -> {"TinyInt"}
      [] base = "i16" -> {"SmallInt"}
      [] base = "i32" -> {"Int"}
      [] base = "i64" -> {"BigInt", "Counter"}
      [] base = "f32" -> {"Float"}
      [] base = "f64" -> {"Double"}
      [] base = "CqlVarint" -> {"Varint"}
      [] base = "CqlDecimal" -> {"Decimal"}
      [] base \in {"&[u8]", "Vec<u8>", "Bytes"} -> {"Blob"}
      [] base \in {"&str", "String"} -> {"Ascii", "Text"}
      [] base = "Counter" -> {"Counter"}
      [] base = "CqlDuration" -> {"Duration"}
      [] base = "CqlDate" -> {"Date"}
      [] base = "CqlTime" -> {"Time"}
      [] base = "CqlTimestamp" -> {"Timestamp"}
      [] base = "CqlValue" -> ColumnType

\* C4 as claimed: deserialize with a column type that T::type_check rejects
\* never returns a successful value; in particular i32 with column type Date
\* and a present 4-byte slice does not return Ok.
C4_Original ==
    (Returned("deserialize") /\ ~type_check(T, typ).ok) => ~result.ok

\* C4 as amended: through the pipeline type_check -> read cell ->
\* deserialize, a column type that T::type_check rejects never yields a
\* successful value; the pipeline returns the MismatchedType error of
\* type_check and deserialize is not reached.
C4_PipelineGate ==
    (entry = "tests::deserialize" /\ typ \notin AcceptedColumnTypes(T.base)) =>
        /\ op # "deserialize"
        /\ pc = "done" => (op = "type_check" /\ FailsWith("MismatchedType"))

C4_Witness ==
    /\ entry = "tests::deserialize"
    /\ pc = "done"
    /\ T = Ty(<<>>, "i32")
    /\ typ = "Date"
    /\ bytes = <<0, 0, 0, 4, 1, 2, 3, 4>>
    /\ FailsWith("MismatchedType")

\* C5: for a strict target type T, T::type_check(c) returns Ok exactly when
\* c is in T's accepted set, and otherwise an error with cql_type c and kind
\* MismatchedType whose expected list is exactly T's accepted set.
C5_StrictTypeCheck ==
    (entry = "type_check" /\ Returned("type_check") /\ T.wrap = <<>>
        /\ T.base \in StrictTypes) =>
        IF typ \in AcceptedColumnTypes(T.base) THEN result = Ok(Unit)
        ELSE /\ ~result.ok
             /\ result.err.cql_type = typ
             /\ result.err.rust_name = T
             /\ result.err.kind.tag = "MismatchedType"
             /\ LET e == result.err.kind.expected
                IN  /\ {e[i] : i \in 1 .. Len(e)} = AcceptedColumnTypes(T.base)
                    /\ Len(e) = Cardinality(AcceptedColumnTypes(T.base))

C5_Witness ==
    /\ entry = "type_check"
    /\ Returned("type_check")
    /\ T = Ty(<<>>, "i64")
    /\ typ = "Counter"
    /\ result.ok

\* C6: Option<T>::deserialize maps a null to Ok(None), and a present slice to
\* Some(x) when T::deserialize yields x and to T's error, unchanged, when it
\* fails; a present zero-length slice is never mapped to None.
C6_Option ==
    (Returned("deserialize") /\ IsOption(T)) =>
        IF ~v.some THEN result.ok /\ result.val = [tag |-> "None"]
        ELSE LET r == deserialize(Inner(T), typ, v)
             IN  IF r.ok
                 THEN result.ok /\ result.val = [tag |-> "Some", inner |-> r.val]
                 ELSE ~result.ok /\ result.err = r.err

C6_Witness ==
    /\ Returned("deserialize")
    /\ T = Option(Ty(<<>>, "i32"))
    /\ typ = "Int"
    /\ v = Some(<<>>)
    /\ FailsWith("ByteLengthMismatch")
    /\ result.err.rust_name = Ty(<<>>, "i32")

\* C7: Option<T>::type_check(c) and MaybeEmpty<T>::type_check(c) return the
\* outcome of T::type_check(c), Ok or the same error: a wrapped type accepts
\* exactly the column types its innermost type accepts.
C7_WrapperTypeCheck ==
    (entry = "type_check" /\ Returned("type_check") /\ T.wrap # <<>>) =>
        /\ result = IF T.base = "CqlValue" THEN CqlValue_type_check(typ)
                    ELSE strict_type_check(Ty(<<>>, T.base), typ)
        /\ result.ok <=> typ \in AcceptedColumnTypes(T.base)

C7_Witness ==
    /\ entry = "type_check"
    /\ Returned("type_check")
    /\ T = Option(MaybeEmpty(Ty(<<>>, "i32")))
    /\ typ = "Date"
    /\ FailsWith("MismatchedType")
    /\ result.err.rust_name = Ty(<<>>, "i32")

\* The UTF-8 encoding of one Unicode scalar value.
C8_encode_char(c) ==
    IF c < 128 THEN <<c>>
    ELSE IF c < 2048 THEN <<192 + c \div 64, 128 + (c % 64)>>
    ELSE IF c < 65536
         THEN <<224 + c \div 4096, 128 + ((c \div 64) % 64), 128 + (c % 64)>>
    ELSE <<240 + c \div 262144, 128 + ((c \div 4096) % 64),
           128 + ((c \div 64) % 64), 128 + (c % 64)>>

RECURSIVE C8_encode(_)
C8_encode(chars) ==
    IF chars = <<>> THEN <<>>
    ELSE C8_encode_char(Head(chars)) \o C8_encode(Tail(chars))

C8_IsScalar(c) == c \in 0 .. 1114111 /\ c \notin 55296 .. 57343

\* The UTF-8 bytes of "Zażółć" and its code points.
C8_Zazolc == <<90, 97, 197, 188, 195, 179, 197, 130, 196, 135>>
C8_ZazolcChars == <<90, 97, 380, 243, 322, 263>>

\* Slices that are not well-formed UTF-8: a truncated sequence, an overlong
\* form, a surrogate, a value above U+10FFFF, a stray continuation byte.
C8_IllFormed ==
    {<<90, 97, 197>>, <<192, 128>>, <<237, 160, 128>>, <<244, 144, 128, 128>>,
     <<102, 128>>, <<255>>, <<128, 0, 0, 0>>}

\* C8: for &str and String, against Ascii a slice with any byte above 127
\* fails (ExpectedAscii); against Text no ASCII check is made: a success
\* yields exactly the string whose UTF-8 encoding is the slice (the bytes of
\* "Zażółć" decode to that string), and a slice that is not well-formed UTF-8
\* fails with InvalidUtf8.
C8_Strings ==
    (Returned("deserialize") /\ T.wrap = <<>> /\ T.base \in StringTypes /\ v.some) =>
        /\ (typ = "Ascii" /\ \E i \in 1 .. Len(v.slice) : v.slice[i] > 127) =>
               FailsWith("ExpectedAscii")
        /\ typ = "Text" =>
               /\ result.ok =>
                      /\ \A i \in 1 .. Len(result.val.chars) :
                             C8_IsScalar(result.val.chars[i])
                      /\ C8_encode(result.val.chars) = v.slice
               /\ ~result.ok => FailsWith("InvalidUtf8")
               /\ v.slice \in C8_IllFormed => FailsWith("InvalidUtf8")
               /\ v.slice = C8_Zazolc =>
                      result.ok /\ result.val.chars = C8_ZazolcChars
               /\ (\A i \in 1 .. Len(v.slice) : v.slice[i] < 128) =>
                      result.ok /\ result.val.chars = v.slice

C8_Witness ==
    /\ Returned("deserialize")
    /\ T = Ty(<<>>, "&str")
    /\ typ = "Ascii"
    /\ v = Some(C8_Zazolc)
    /\ FailsWith("ExpectedAscii")

\* The big-endian bytes of 86399999999999.
C9_MaxBytes == <<0, 0, 78, 148, 145, 78, 255, 255>>

\* a <= b for byte strings of one length, most significant byte first.
RECURSIVE C9_BytesLe(_, _)
C9_BytesLe(a, b) ==
    \/ a = <<>>
    \/ Head(a) < Head(b)
    \/ Head(a) = Head(b) /\ C9_BytesLe(Tail(a), Tail(b))

\* The eight big-endian bytes of a 64-bit value held as limbs.
C9_LimbBytes(l) ==
    LET hi == IF l[1] < 0 THEN l[1] + 65536 ELSE l[1]
    IN  <<hi \div 256, hi % 256,
          l[2] \div 65536, (l[2] \div 256) % 256, l[2] % 256,
          l[3] \div 65536, (l[3] \div 256) % 256, l[3] % 256>>

\* C9: an 8-byte slice decodes as CqlTime exactly when its signed big-endian
\* value n satisfies 0 <= n <= 86399999999999, yielding CqlTime(n); every
\* other 8-byte value fails with ValueOverflow.
C9_TimeRange ==
    (Returned("deserialize") /\ T = Ty(<<>>, "CqlTime") /\ v.some
        /\ Len(v.slice) = 8) =>
        IF v.slice[1] < 128 /\ C9_BytesLe(v.slice, C9_MaxBytes)
        THEN /\ result.ok
             /\ result.val.tag = "CqlTime"
             /\ C9_LimbBytes(result.val.limbs) = v.slice
        ELSE FailsWith("ValueOverflow")

C9_Witness ==
    /\ Returned("deserialize")
    /\ T = Ty(<<>>, "CqlTime")
    /\ typ = "Time"
    /\ v = Some(<<0, 0, 78, 148, 145, 79, 0, 0>>)
    /\ FailsWith("ValueOverflow")

\* C10: a 4-byte Date slice is read as an unsigned big-endian 32-bit value d
\* and the signed days since the epoch is d - 2^31, within -2^31 .. 2^31 - 1;
\* the bytes 80 00 00 00 give epoch day 0.
C10_DateBias ==
    /\ (Returned("deserialize") /\ T = Ty(<<>>, "CqlDate") /\ v.some
            /\ Len(v.slice) = 4) =>
           /\ result.ok
           /\ result.val.u32 = <<v.slice[1] * 256 + v.slice[2],
                                 v.slice[3] * 256 + v.slice[4]>>
    /\ (Returned("get_days_since_epoch") /\ v.some /\ Len(v.slice) = 4) =>
           /\ result.ok
           /\ result.val.n \in -2147483647 - 1 .. 2147483647
           /\ result.val.n \div 65536 + 32768 = v.slice[1] * 256 + v.slice[2]
           /\ result.val.n % 65536 = v.slice[3] * 256 + v.slice[4]
           /\ v.slice = <<128, 0, 0, 0>> => result.val.n = 0

C10_Witness ==
    /\ Returned("get_days_since_epoch")
    /\ v = Some(<<128, 0, 0, 0>>)
    /\ result.ok
    /\ result.val.n = 0

\* The 64-bit value held as limbs lies in -2^31 .. 2^31 - 1.
C11_FitsI32(l) ==
    \/ l[1] = 0 /\ l[2] <= 127
    \/ l[1] = -1 /\ l[2] >= 16777088

\* The value of limbs that fit 32 bits.
C11_Int(l) == (l[1] * 16777216 + l[2]) * 16777216 + l[3]

\* The values the sampled variable-length integers stand for.
C11_Sample(vint) ==
    CASE vint = <<2>> -> <<0, 0, 1>>
      [] vint = <<240, 255, 255, 255, 254>> -> <<0, 127, 16777215>>
      [] vint = <<241, 0, 0, 0, 0>> -> <<0, 128, 0>>
      [] vint = <<240, 255, 255, 255, 255>> -> <<-1, 16777088, 0>>
      [] vint = <<241, 0, 0, 0, 1>> -> <<-1, 16777087, 16777215>>
      [] vint = <<0>> -> <<0, 0, 0>>
      [] vint = <<129, 44>> -> <<0, 0, 150>>
      [] vint = <<255, 255, 255, 255, 255, 255, 255, 255, 254>> ->
             <<32767, 16777215, 16777215>>
      [] vint = <<255, 255, 255, 255, 255, 255, 255, 255, 255>> ->
             <<-32768, 0, 0>>

\* C11: CqlDuration decode reads three consecutive variable-length signed
\* integers, months, days, nanoseconds in that order; an integer that cannot
\* be read gives GenericParseError, months or days outside i32 gives
\* ValueOverflow, and otherwise the result holds exactly the three values,
\* nanoseconds over the whole of i64.
C11_Duration ==
    (Returned("deserialize") /\ T = Ty(<<>>, "CqlDuration") /\ v.some) =>
        LET m == vint_decode(v.slice)
            d == vint_decode(m.rest)
            n == vint_decode(d.rest)
        IN  /\ IF ~m.ok THEN FailsWith("GenericParseError")
               ELSE IF ~C11_FitsI32(m.limbs) THEN FailsWith("ValueOverflow")
               ELSE IF ~d.ok THEN FailsWith("GenericParseError")
               ELSE IF ~C11_FitsI32(d.limbs) THEN FailsWith("ValueOverflow")
               ELSE IF ~n.ok THEN FailsWith("GenericParseError")
               ELSE /\ result.ok
                    /\ result.val = [tag |-> "CqlDuration",
                                     months |-> C11_Int(m.limbs),
                                     days |-> C11_Int(d.limbs),
                                     nanoseconds |-> n.limbs]
            /\ \A a \in VintsAroundI32, b \in VintsAroundI32, c \in VintsOverI64 :
                   v.slice = a \o b \o c =>
                       IF C11_FitsI32(C11_Sample(a)) /\ C11_FitsI32(C11_Sample(b))
                       THEN /\ result.ok
                            /\ result.val.months = C11_Int(C11_Sample(a))
                            /\ result.val.days = C11_Int(C11_Sample(b))
                            /\ result.val.nanoseconds = C11_Sample(c)
                       ELSE FailsWith("ValueOverflow")
            /\ v.slice = <<2, 240, 255, 255, 255, 254>> =>
                   FailsWith("GenericParseError")

C11_Witness ==
    /\ Returned("deserialize")
    /\ T = Ty(<<>>, "CqlDuration")
    /\ typ = "Duration"
    /\ v = Some(<<2>> \o <<241, 0, 0, 0, 0>> \o <<0>>)
    /\ FailsWith("ValueOverflow")

\* The four big-endian two's-complement bytes of a 32-bit value.
C12_i32_to_be_bytes(n) ==
    <<(n \div 16777216) % 256, (n \div 65536) % 256, (n \div 256) % 256, n % 256>>

C13_Unwrapped(x) == IF x.tag = "Some" THEN x.inner ELSE x

\* The value passes the validations the decoder makes of its cell: a CqlTime
\* lies in 0 .. 86399999999999, a string for an Ascii column is ASCII.
C13_Admitted(c, x) ==
    LET u == C13_Unwrapped(x)
    IN  /\ u.tag = "CqlTime" =>
               /\ u.limbs[1] >= 0
               /\ C9_BytesLe(C9_LimbBytes(u.limbs), C9_MaxBytes)
        /\ (u.tag \in {"&str", "String"} /\ c = "Ascii") =>
               \A i \in 1 .. Len(u.chars) : u.chars[i] < 128

C13_RoundTripDone ==
    entry \in {"serialize", "compat_check_serialized"} /\ Returned("deserialize")

C14_CompatDone ==
    /\ entry \in {"compat_check", "compat_check_serialized"}
    /\ Returned("deserialize")
    /\ v.some

---------------------------------------------------------------------------
\* C15: CqlValue::type_check returns Ok for every column type, the
\* parametrized composite types included, whether called on its own or as
\* the first step of the pipeline.
C15_CqlValueTypeCheck ==
    /\ \A c \in ColumnType : type_check(Ty(<<>>, "CqlValue"), c) = Ok(Unit)
    /\ T = Ty(<<>>, "CqlValue") =>
           /\ Returned("type_check") => result = Ok(Unit)
           /\ typck # "err"

C15_Witness ==
    /\ Returned("type_check")
    /\ T = Ty(<<>>, "CqlValue")
    /\ typ = "Map"
    /\ result = Ok(Unit)

---------------------------------------------------------------------------
\* The kinds of BuiltinDeserializationErrorKind.
C16_Kinds ==
    {"GenericParseError", "ExpectedNonNull", "ByteLengthMismatch",
     "ExpectedAscii", "InvalidUtf8", "ValueOverflow"}

\* The built-in rules that read a cell of column type c into target t.
C16_Rules(t, c) ==
    IF t.base = "CqlValue"
    THEN IF c \in CompositeColumnTypes THEN "composite" ELSE branch_of(c)
    ELSE t.base

\* The listed validations, stated on the bytes: a slice s breaks one when
\* its length is not the width of a fixed-width type, when it has a byte
\* above 127 for an Ascii column, when it is not well-formed UTF-8 for a
\* string, when its 8 bytes are outside the range of a time of day, or
\* when it opens with a duration's months beyond 32 bits.
C16_Breaks(base, c, s) ==
    \/ base \in C3_FixedWidth /\ Len(s) # C3_Width(base)
    \/ base \in StringTypes /\ c = "Ascii" /\ \E i \in 1 .. Len(s) : s[i] > 127
    \/ base \in StringTypes /\ s \in C8_IllFormed
    \/ base = "CqlTime" /\ Len(s) = 8
           /\ ~(s[1] < 128 /\ C9_BytesLe(s, C9_MaxBytes))
    \/ base = "CqlDuration" /\ Len(s) >= 5
           /\ SubSeq(s, 1, 5) \in {<<241, 0, 0, 0, 0>>, <<241, 0, 0, 0, 1>>}
    \/ base = "CqlDecimal" /\ Len(s) \in 1 .. 3

\* C16: for every built-in target type, every column type that passes its
\* type_check and every input (null or a present slice), deserialize returns
\* a value or an error whose kind is one of the six kinds and whose cql_type
\* is the column type passed in; an input that breaks a listed validation
\* (a null for a target other than Option included) yields an error, never
\* a value.
C16_ValueOrStructuredError ==
    (Returned("deserialize") /\ T \in Targets /\ type_check(T, typ).ok) =>
        /\ \/ result.ok
           \/ /\ result.err.kind.tag \in C16_Kinds
              /\ result.err.cql_type = typ
        /\ (~v.some /\ ~IsOption(T)) => FailsWith("ExpectedNonNull")
        /\ (v.some /\ C16_Breaks(C16_Rules(T, typ), typ, v.slice)
               /\ ~("MaybeEmpty" \in {T.wrap[i] : i \in 1 .. Len(T.wrap)}
                    /\ v.slice = <<>>)) =>
               ~result.ok

C16_Witness ==
    /\ Returned("deserialize")
    /\ T = Option(Ty(<<>>, "i16"))
    /\ typ = "SmallInt"
    /\ v = Some(<<1, 2, 3>>)
    /\ result = mk_deser_err(Ty(<<>>, "i16"), "SmallInt", ByteLengthMismatch(2, 3))

---------------------------------------------------------------------------
\* C17: in the pipeline type_check -> read cell -> deserialize, no byte is
\* read before type_check has run; when type_check fails the pipeline ends
\* with that failure and neither the cell read nor deserialize is performed;
\* when the cell read fails the pipeline ends there and deserialize is not
\* performed; so a successful result implies that type_check succeeded for
\* the column type.
C17_PipelineOrder ==
    entry \in PipelineEntries =>
        /\ typck = "none" => op \notin {"read_cql_bytes", "deserialize"}
        /\ typck = "err" =>
               /\ pc = "done"
               /\ op = "type_check"
               /\ result = type_check(T, typ)
               /\ ~result.ok
               /\ v = None
        /\ pc \in {"read", "deserialize"} => typck = "ok"
        /\ (op = "read_cql_bytes" /\ ~read_cql_bytes(bytes).ok) =>
               /\ pc = "done"
               /\ result = mk_deser_err(T, typ, GenericParseError)
        /\ op = "deserialize" =>
               /\ typck = "ok"
               /\ read_cql_bytes(bytes).ok
               /\ v = read_cql_bytes(bytes).value
        /\ (pc = "done" /\ result.ok) =>
               /\ op = "deserialize"
               /\ type_check(T, typ).ok

C17_Witness ==
    /\ entry = "tests::deserialize"
    /\ pc = "done"
    /\ op = "read_cql_bytes"
    /\ typck = "ok"
    /\ T = Ty(<<>>, "i32")
    /\ typ = "Int"
    /\ bytes = <<0, 0, 0, 2, 1>>
    /\ result = mk_deser_err(T, typ, GenericParseError)

---------------------------------------------------------------------------
\* C18: for every present slice s of a Blob column, the zero-length slice
\* included, &[u8], Vec<u8> and Bytes all decode successfully to exactly the
\* bytes of s; a present zero-length slice decodes successfully to the empty
\* value for the blob and the string targets.
C18_Blob ==
    (Returned("deserialize") /\ T.wrap = <<>> /\ v.some) =>
        /\ (T.base \in BlobTypes /\ typ = "Blob") =>
               result = Ok([tag |-> T.base, bytes |-> v.slice])
        /\ (T.base \in StringTypes /\ typ \in {"Ascii", "Text"} /\ v.slice = <<>>) =>
               result = Ok([tag |-> T.base, chars |-> <<>>])
        /\ (T.base \in BlobTypes /\ typ = "Blob" /\ entry \in PipelineEntries) =>
               bytes = put_i32(Len(result.val.bytes)) \o result.val.bytes

C18_Witness ==
    /\ Returned("deserialize")
    /\ T = Ty(<<>>, "Bytes")
    /\ typ = "Blob"
    /\ v = Some(<<>>)
    /\ result = Ok([tag |-> "Bytes", bytes |-> <<>>])

---------------------------------------------------------------------------
\* C19: for &str and String (plain or under Option) against column type
\* Ascii, a failed decode of a present slice always has kind ExpectedAscii,
\* also when the slice is not well-formed UTF-8, and an all-ASCII slice never
\* fails; for every target and every column type it accepts, a failure of
\* kind InvalidUtf8 only occurs for a string target against Text.
C19_AsciiBeforeUtf8 ==
    Returned("deserialize") =>
        /\ (T.base \in StringTypes /\ typ = "Ascii" /\ v.some) =>
               /\ ~result.ok => result.err.kind = ExpectedAscii
               /\ ~result.ok <=> \E i \in 1 .. Len(v.slice) : v.slice[i] > 127
        /\ (type_check(T, typ).ok /\ FailsWith("InvalidUtf8")) =>
               /\ T.base \in StringTypes
               /\ typ = "Text"

C19_Witness ==
    /\ Returned("deserialize")
    /\ T = Ty(<<>>, "String")
    /\ typ = "Ascii"
    /\ v = Some(<<192, 128>>)
    /\ from_utf8(v.slice).ok = FALSE
    /\ result = mk_deser_err(T, typ, ExpectedAscii)

---------------------------------------------------------------------------
\* The emptiable types among the fixed-width ones (Counter is not emptiable).
C20_EmptiableFixedWidth == C3_FixedWidth \cap EmptiableTypes

\* A call of Option<MaybeEmpty<T>>::deserialize for such a T, against a
\* column type it accepts, has returned.
C20_Done ==
    /\ Returned("deserialize")
    /\ T.wrap = <<"Option", "MaybeEmpty">>
    /\ T.base \in C20_EmptiableFixedWidth
    /\ type_check(T, typ).ok

C20_None == Ok([tag |-> "None"])

C20_SomeEmpty == Ok([tag |-> "Some", inner |-> [tag |-> "Empty"]])

C20_SomeValue ==
    /\ result.ok
    /\ result.val.tag = "Some"
    /\ result.val.inner.tag = "Value"
    /\ result.val.inner.inner.tag = T.base
    /\ Ok(result.val.inner.inner) = strict_deserialize(Ty(<<>>, T.base), typ, v)

\* Eight bytes that are a time of day: 0 .. 86399999999999.
C20_TimeOfDay(s) == s[1] < 128 /\ C9_BytesLe(s, C9_MaxBytes)

\* C20 as claimed: for an emptiable fixed-width T, Option<MaybeEmpty<T>>
\* yields None for null, Some(Empty) for a present zero-length slice,
\* Some(Value(x)) for every present slice of exactly T's width, and
\* ByteLengthMismatch for a present slice of any other non-zero length.
C20_Original ==
    C20_Done =>
        IF ~v.some THEN result = C20_None
        ELSE IF v.slice = <<>> THEN result = C20_SomeEmpty
        ELSE IF Len(v.slice) = C3_Width(T.base) THEN C20_SomeValue
        ELSE FailsWith("ByteLengthMismatch")

\* C20 as amended: as claimed, except that a present slice of exactly T's
\* width yields Some(Value(x)) only when T accepts its value: for CqlTime,
\* eight bytes outside 0 .. 86399999999999 yield ValueOverflow and none of
\* the three values.
C20_OptionMaybeEmpty ==
    C20_Done =>
        IF ~v.some THEN result = C20_None
        ELSE IF v.slice = <<>> THEN result = C20_SomeEmpty
        ELSE IF Len(v.slice) = C3_Width(T.base)
             THEN IF T.base = "CqlTime" /\ ~C20_TimeOfDay(v.slice)
                  THEN FailsWith("ValueOverflow")
                  ELSE C20_SomeValue
        ELSE /\ ~result.ok
             /\ result.err.kind = ByteLengthMismatch(C3_Width(T.base), Len(v.slice))

C20_Witness ==
    /\ C20_Done
    /\ T.base = "CqlTime"
    /\ typ = "Time"
    /\ v = Some(<<0, 0, 78, 148, 145, 78, 255, 255>>)
    /\ C20_SomeValue
    /\ result.val.inner.inner.limbs = <<0, 5149841, 5177343>>

---------------------------------------------------------------------------
\* C21: bool decode of a present one-byte slice never fails; it yields false
\* exactly when the byte is 0x00 and true for each of the 255 other byte
\* values, so all non-zero bytes decode to the same value.
C21_Bool ==
    (Returned("deserialize") /\ T = Ty(<<>>, "bool") /\ v.some
        /\ Len(v.slice) = 1) =>
        /\ v.slice[1] = 0 => result = Ok([tag |-> "bool", b |-> FALSE])
        /\ v.slice[1] \in 1 .. 255 => result = Ok([tag |-> "bool", b |-> TRUE])

C21_Witness ==
    /\ Returned("deserialize")
    /\ T = Ty(<<>>, "bool")
    /\ typ = "Boolean"
    /\ v = Some(<<2>>)
    /\ result = Ok([tag |-> "bool", b |-> TRUE])

---------------------------------------------------------------------------
\* C22: a present zero-length slice decoded as CqlVarint or CqlDecimal is
\* never a ByteLengthMismatch: plain CqlVarint succeeds with the value built
\* from zero bytes, plain CqlDecimal fails with GenericParseError (the scale
\* cannot be read), and MaybeEmpty<CqlVarint> and MaybeEmpty<CqlDecimal>
\* both yield Empty, whatever the inner decode would have returned.
C22_EmptyVariableLength ==
    (Returned("deserialize") /\ v = Some(<<>>)
        /\ T.base \in {"CqlVarint", "CqlDecimal"}
        /\ T.wrap \in {<<>>, <<"MaybeEmpty">>}) =>
        /\ ~FailsWith("ByteLengthMismatch")
        /\ T = Ty(<<>>, "CqlVarint") =>
               result = Ok([tag |-> "CqlVarint", bytes |-> <<>>])
        /\ T = Ty(<<>>, "CqlDecimal") =>
               result = mk_deser_err(T, typ, GenericParseError)
        /\ T.wrap = <<"MaybeEmpty">> =>
               /\ result = Ok([tag |-> "Empty"])
               /\ T.base = "CqlDecimal" => ~deserialize(Inner(T), typ, v).ok

C22_Witness ==
    /\ Returned("deserialize")
    /\ T = Ty(<<>>, "CqlDecimal")
    /\ typ = "Decimal"
    /\ v = Some(<<>>)
    /\ result = mk_deser_err(T, typ, GenericParseError)

====
